---- MODULE Spec2Model ----
(***************************************************************************)
(* Modbus RTU codec of tokio-modbus (src/src/codec/rtu.rs): CRC-16, the    *)
(* request and response length predictors, the frame decoder, the resync   *)
(* step, the streaming decode loop and the encoders, as a state machine    *)
(* over the input buffer and the dropped-byte log of one decoder instance. *)
(***************************************************************************)
EXTENDS Integers, Sequences, FiniteSets, TLC

VARIABLES
    role,           \* "request" (RequestDecoder) or "response" (ResponseDecoder)
    wire,           \* bytes the peer has written, not yet read into buf
    buf,            \* the decoder's input buffer (BytesMut)
    dropped_bytes,  \* FrameDecoder.dropped_bytes
    pc,             \* position inside decode(): "idle", "predict", "frame", "recover", "panicked"
    retry,          \* the loop's local flag
    pdu_len,        \* the length the predictor returned in this iteration
    res,            \* what the last finished decode() call returned
    callBuf,        \* history: buf when the current/last decode() call began
    callDropped,    \* history: bytes dropped by recover_on_error during that call
    sent,           \* history: the frames the peer encoded, in order
    recv,           \* history: the frames decode() returned, in order
    noise,          \* history: number of noise bytes put on the wire
    bursts,         \* history: number of noise bursts appended
    is_readable,    \* the transport's flag: buf holds bytes decode() has not seen
    write_buf,      \* the encoder's output buffer (buf: &mut BytesMut)
    enc,            \* history: the last encode() call, its argument and its result
    pred,           \* what the length predictor returned for buf, when applied alone
    codec,          \* what ClientCodec::decode / ServerCodec::decode did last
    fed,            \* history: every byte read from the line into buf, in order
    allDropped,     \* history: every byte recover_on_error dropped, in order
    crc_val,        \* what calc_crc returned for buf, when applied alone
    ctx             \* the last call of a client Context method and its outcome

\* the variables of the encoders, the predictor run alone and the typed codecs
aux == <<write_buf, enc, pred, codec, crc_val, ctx>>

\* the variables of the raw decoder and its line
decvars == <<role, wire, buf, dropped_bytes, pc, retry, pdu_len, res,
             callBuf, callDropped, sent, recv, noise, bursts, is_readable,
             fed, allDropped>>

vars == <<role, wire, buf, dropped_bytes, pc, retry, pdu_len, res,
          callBuf, callDropped, sent, recv, noise, bursts, is_readable,
          write_buf, enc, pred, codec, fed, allDropped, crc_val, ctx>>

-----------------------------------------------------------------------------
(* Program constants *)

\* const MAX_FRAME_LEN: usize = 256
MAX_FRAME_LEN == 256

(* Bounds of the model *)

\* frames the peer sends in one behaviour
MaxFrames == 2
\* single noise bytes the line injects in one behaviour
MaxNoise == 1
\* largest partial read (a read may also take all the line holds)
MaxChunk == 1
\* length of one burst of line noise, and the number of bursts
BurstLen == 129
MaxBursts == 2
\* encode() is called while the output buffer holds at most this many bytes
MaxOut == 16
\* longest buffer handed to a length predictor on its own
MaxBufLen == 11
\* longest byte sequence, over a few byte values, handed to calc_crc on its own
MaxCrcLen == 3
\* largest quantity a Context reader is asked for, and most registers in a response
MaxCnt == 9

-----------------------------------------------------------------------------
(* Fixed-width integer helpers: u8 and u16 arithmetic of the source *)

RECURSIVE BitXor(_, _, _)
\* a ^ b on w-bit unsigned integers
BitXor(a, b, w) ==
    IF w = 0 THEN 0
    ELSE ((a + b) % 2) + 2 * BitXor(a \div 2, b \div 2, w - 1)

RECURSIVE BitOr(_, _, _)
\* a | b on w-bit unsigned integers
BitOr(a, b, w) ==
    IF w = 0 THEN 0
    ELSE (IF (a % 2) + (b % 2) > 0 THEN 1 ELSE 0) + 2 * BitOr(a \div 2, b \div 2, w - 1)

\* (x << n) on u16: bits shifted past bit 15 are lost
Shl16(x, n) == (x * (2 ^ n)) % 65536

\* (x >> n) on u16
Shr16(x, n) == x \div (2 ^ n)

\* Cursor::read_u16::<BigEndian>() over a two-byte slice
read_u16_BE(b) == b[1] * 256 + b[2]

\* BufMut::put_u16: the two bytes of v, most significant first
put_u16(b, v) == b \o <<v \div 256, v % 256>>

-----------------------------------------------------------------------------
(* calc_crc / check_crc *)

RECURSIVE CrcBits(_, _)
\* the inner `for _ in 0..8` loop, k rounds left
CrcBits(crc, k) ==
    IF k = 0 THEN crc
    ELSE LET crc_odd == (crc % 2) # 0
             shifted == Shr16(crc, 1)
         IN  CrcBits(IF crc_odd THEN BitXor(shifted, 40961, 16) ELSE shifted, k - 1)

RECURSIVE CrcFold(_, _, _)
\* the outer `for x in data` loop from index i on
CrcFold(crc, data, i) ==
    IF i > Len(data) \/ crc < 0 THEN crc
    ELSE CrcFold(CrcBits(BitXor(crc, data[i], 16), 8), data, i + 1)

\* calc_crc without the final byte swap
calc_crc_swapless(data) == CrcFold(65535, data, 1)

\* calc_crc with the accumulator starting at zero
calc_crc_zero_init(data) ==
    LET crc == CrcFold(0, data, 1)
    IN  BitOr(Shl16(crc, 8), Shr16(crc, 8), 16)

calc_crc(data) ==
    LET crc == CrcFold(65535, data, 1)
    IN  BitOr(Shl16(crc, 8), Shr16(crc, 8), 16)

\* TRUE for Ok(()), FALSE for Err(InvalidData)
check_crc(adu_data, expected_crc) ==
    LET actual_crc == calc_crc(adu_data)
    IN  ~(expected_crc # actual_crc)

-----------------------------------------------------------------------------
(* Length predictors.  A result is [kind, len]: "Len" is Ok(Some(len)),    *)
(* "NeedMore" is Ok(None), "Err" is Err(InvalidData), "Panic" is the       *)
(* unimplemented!() of the 0xFE branch.                                    *)

\* a predictor that counts one byte too many
PredLenOffByOne(n) == [kind |-> "Len", len |-> n + 1]
PredLen(n) == [kind |-> "Len", len |-> n]
\* a predictor that reports an incomplete buffer as an error
PredNeedMoreAsErr == [kind |-> "Err", len |-> 0]
PredNeedMore == [kind |-> "NeedMore", len |-> 0]
\* a predictor that aborts on an unknown function code
PredErrAsPanic == [kind |-> "Panic", len |-> 0]
PredErr == [kind |-> "Err", len |-> 0]
PredPanic == [kind |-> "Panic", len |-> 0]

\* adu_buf.get(i): is offset i (0-based) inside the buffer?
HasOffset(adu_buf, i) == Len(adu_buf) > i
\* the byte at 0-based offset i
At(adu_buf, i) == adu_buf[i + 1]

get_request_pdu_len(adu_buf) ==
    IF HasOffset(adu_buf, 1) THEN
        LET fn_code == At(adu_buf, 1) IN
        CASE fn_code \in 1..6 -> PredLen(5)
          [] fn_code \in {7, 11, 12, 17} -> PredLen(1)
          [] fn_code \in {15, 16} ->
                IF HasOffset(adu_buf, 6) THEN PredLen(6 + At(adu_buf, 6))
                ELSE PredNeedMore
          [] fn_code = 22 -> PredLen(7)
          [] fn_code = 24 -> PredLen(3)
          [] fn_code = 23 ->
                IF HasOffset(adu_buf, 10) THEN PredLen(10 + At(adu_buf, 10))
                ELSE PredNeedMore
          [] OTHER -> PredErr
    ELSE PredNeedMore

get_response_pdu_len(adu_buf) ==
    IF HasOffset(adu_buf, 1) THEN
        LET fn_code == At(adu_buf, 1) IN
        CASE fn_code \in (1..4) \cup {12, 23} ->
                IF HasOffset(adu_buf, 2) THEN PredLen(2 + At(adu_buf, 2))
                ELSE PredNeedMore
          [] fn_code \in {5, 6, 11, 15, 16} -> PredLen(5)
          [] fn_code = 7 -> PredLen(2)
          [] fn_code = 22 -> PredLen(7)
          [] fn_code = 24 ->
                IF Len(adu_buf) > 3
                THEN PredLen(3 + read_u16_BE(SubSeq(adu_buf, 3, 4)))
                ELSE PredNeedMore
          [] fn_code \in 129..171 -> PredLen(2)
          [] fn_code = 254 ->
                IF Len(adu_buf) < 4 THEN PredNeedMore
                ELSE LET subcall == read_u16_BE(SubSeq(adu_buf, 3, 4)) IN
                     CASE subcall = 1793 -> PredLen(7)
                       [] subcall = 1794 -> PredLen(3)
                       [] subcall = 1795 -> PredLen(4)
                       [] subcall = 1796 -> PredLen(71)
                       [] OTHER -> PredPanic
          [] OTHER -> PredErr
    ELSE PredNeedMore

\* the function codes get_request_pdu_len has a match arm for
RecognizedRequest == (1..6) \cup {7, 11, 12, 17} \cup {15, 16} \cup {22, 24, 23}

\* the function codes get_response_pdu_len has a match arm for
RecognizedResponse ==
    (1..4) \cup {12, 23} \cup {5, 6, 11, 15, 16} \cup {7, 22, 24}
        \cup (129..171) \cup {254}

\* the decoders with each other's predictor
get_pdu_len_crossed(r, adu_buf) ==
    IF r = "request" THEN get_response_pdu_len(adu_buf)
    ELSE get_request_pdu_len(adu_buf)

\* the get_pdu_len argument RequestDecoder / ResponseDecoder hand to decode()
get_pdu_len(r, adu_buf) ==
    IF r = "request" THEN get_request_pdu_len(adu_buf)
    ELSE get_response_pdu_len(adu_buf)

-----------------------------------------------------------------------------
(* BytesMut operations used by the frame decoder *)

\* buf.split_to(n): [head: the first n bytes, rest: what stays in buf]
split_to(b, n) == [head |-> SubSeq(b, 1, n), rest |-> SubSeq(b, n + 1, Len(b))]

\* buf.split(): [taken: everything buf held, left: what stays in buf]
split(b) == [taken |-> b, left |-> << >>]

\* buf.unsplit(other): other is appended to buf
unsplit(b, other) == b \o other

\* the map_err closure of FrameDecoder::decode with the parts in a wrong order
RestoreSwapped(adu_buf, crc_buf, buf_after) ==
    LET rem_buf == buf_after
        emptied == << >>
    IN  unsplit(unsplit(unsplit(emptied, crc_buf), adu_buf), rem_buf)

\* the map_err closure of FrameDecoder::decode without buf.unsplit(crc_buf)
RestoreCrcLost(adu_buf, crc_buf, buf_after) ==
    LET rem_buf == buf_after
        emptied == << >>
    IN  unsplit(unsplit(emptied, adu_buf), rem_buf)

\* the map_err closure of FrameDecoder::decode: "Restore the input buffer"
Restore(adu_buf, crc_buf, buf_after) ==
    LET rem_buf == buf_after      \* buf.split(): everything left
        emptied == << >>          \* buf after split()
    IN  unsplit(unsplit(unsplit(emptied, adu_buf), crc_buf), rem_buf)

\* FrameDecoder::decode that forgets to clear the log
ClearOnSuccessKept(dropped) == dropped

\* lines 48-55: the log is cleared when a frame is decoded
ClearOnSuccess(dropped) ==
    IF dropped # << >> THEN << >> ELSE dropped

FrameResult(k, b, d, id, p) ==
    [kind |-> k, buf |-> b, dropped_bytes |-> d, slave_id |-> id, pdu |-> p]

\* a success branch that returns the whole ADU prefix as the PDU
FrameOkAddrKept(dropped, adu_buf, crc_buf, rest) ==
    FrameResult("Frame", rest, ClearOnSuccess(dropped), adu_buf[1], adu_buf)

\* a success branch that only peeks at the CRC and leaves it in the buffer
FrameOkCrcLeft(dropped, adu_buf, crc_buf, rest) ==
    LET s3 == split_to(adu_buf, 1)
    IN  FrameResult("Frame", crc_buf \o rest, ClearOnSuccess(dropped),
                    s3.head[1], s3.rest)

\* lines 47-59, the Ok(()) branch: rest is what the two split_to calls left
\* in buf
FrameOk(dropped, adu_buf, crc_buf, rest) ==
    LET s3 == split_to(adu_buf, 1)         \* adu_buf.split_to(1)[0]
    IN  FrameResult("Frame", rest, ClearOnSuccess(dropped), s3.head[1], s3.rest)

\* an incomplete frame reported as an error
FrameIncompleteAsErr(dropped, b) == FrameResult("Err", b, dropped, 0, << >>)

\* lines 73-76: "Incomplete frame", Ok(None)
FrameIncomplete(dropped, b) == FrameResult("NeedMore", b, dropped, 0, << >>)

\* FrameDecoder::decode(&mut self, buf, pdu_len): "Frame" is Ok(Some(..)),
\* "NeedMore" is Ok(None), "Err" is Err(..); buf and dropped_bytes are the
\* values the two &mut arguments hold when the call returns
FrameDecoder_decode(dropped, b, n) ==
    LET adu_len == 1 + n IN
    IF Len(b) >= adu_len + 2 THEN
        LET s1 == split_to(b, adu_len)
            adu_buf == s1.head
            s2 == split_to(s1.rest, 2)
            crc_buf == s2.head
            crc == read_u16_BE(crc_buf)
        IN  IF check_crc(adu_buf, crc)
            THEN FrameOk(dropped, adu_buf, crc_buf, s2.rest)
            ELSE FrameResult("Err", Restore(adu_buf, crc_buf, s2.rest), dropped,
                             0, << >>)
    ELSE FrameIncomplete(dropped, b)

\* recover_on_error that pushes the byte and then clears a full log
LogPushThenClear(dropped, first) ==
    IF Len(dropped) >= MAX_FRAME_LEN THEN << >> ELSE Append(dropped, first)

\* recover_on_error without the overflow check
LogPushUnbounded(dropped, first) == Append(dropped, first)

\* lines 86-94: clear the log when it is full, then push the byte
LogPush(dropped, first) ==
    Append(IF Len(dropped) >= MAX_FRAME_LEN THEN << >> ELSE dropped, first)

\* recover_on_error that skips two bytes
AdvanceTwo(b) == SubSeq(b, 3, Len(b))

\* buf.advance(1)
AdvanceOne(b) == SubSeq(b, 2, Len(b))

\* recover_on_error without buf.advance(1)
recover_without_advance(dropped, b) ==
    LET first == b[1]
    IN  [dropped_bytes |-> LogPush(dropped, first), buf |-> b]

\* a resync step that clears the buffer instead of advancing by one byte
recover_clears_buffer(dropped, b) ==
    LET first == b[1]
    IN  [dropped_bytes |-> LogPush(dropped, first), buf |-> << >>]

\* FrameDecoder::recover_on_error(&mut self, buf); the caller guarantees
\* a non-empty buf (debug_assert)
\* recover_on_error that discards the whole buffer once the log is full
recover_gives_up_when_full(dropped, b) ==
    LET first == b[1]
    IN  [dropped_bytes |-> LogPush(dropped, first),
         buf |-> IF Len(dropped) >= MAX_FRAME_LEN THEN << >> ELSE AdvanceOne(b)]

recover_on_error(dropped, b) ==
    LET first == b[1]
    IN  [dropped_bytes |-> LogPush(dropped, first), buf |-> AdvanceOne(b)]

-----------------------------------------------------------------------------
(* Encoders: ClientCodec::encode / ServerCodec::encode after the PDU has    *)
(* been turned into bytes                                                 *)

\* an encoder that writes the CRC low-endian-swapped
EncodeCrcSwapped(out, slave_id, pdu_data) ==
    LET b1 == Append(out, slave_id)
        b2 == b1 \o pdu_data
        crc == calc_crc(b2)
    IN  b2 \o <<crc % 256, crc \div 256>>

\* lines 389-393 and 404-408
encode(out, slave_id, pdu_data) ==
    LET b1 == Append(out, slave_id)       \* buf.put_u8(hdr.slave_id)
        b2 == b1 \o pdu_data              \* buf.put_slice(&pdu_data)
        crc == calc_crc(b2)               \* calc_crc(buf)
    IN  put_u16(b2, crc)                  \* buf.put_u16(crc)

\* results of encode(): Ok(()) or Err(NotConnected), with the buffer as left
EncOk(b) == [kind |-> "Ok", buf |-> b]
EncNotConnected(b) == [kind |-> "NotConnected", buf |-> b]

\* a client encoder that tests the disconnect flag after writing the frame
ClientEncodeWritesFirst(dst, adu) ==
    LET written == encode(dst, adu.slave_id, adu.pdu)
    IN  IF adu.disconnect THEN EncNotConnected(written) ELSE EncOk(written)

\* a client encoder that ignores the disconnect flag
ClientEncodeNoSentinel(dst, adu) ==
    EncOk(encode(dst, adu.slave_id, adu.pdu))

\* ClientCodec::encode(&mut self, adu: RequestAdu, buf)
ClientCodec_encode(dst, adu) ==
    IF adu.disconnect THEN EncNotConnected(dst)
    ELSE EncOk(encode(dst, adu.slave_id, adu.pdu))

\* ServerCodec::encode(&mut self, adu: ResponseAdu, buf)
ServerCodec_encode(dst, adu) ==
    EncOk(encode(dst, adu.slave_id, adu.pdu))

-----------------------------------------------------------------------------
(* Inputs of the model *)

Roles == {"request", "response"}

\* the (address, PDU) pairs the peer encodes: a read-holding-registers
\* request (0x03), the matching response with byte count 4, an exception
\* response (0x82) and a read-exception-status request (0x07)
FrameSet ==
    { [slave_id |-> 1,   pdu |-> <<3, 8, 43, 0, 2>>],
      [slave_id |-> 1,   pdu |-> <<3, 4, 137, 2, 66, 199>>],
      [slave_id |-> 102, pdu |-> <<130, 3>>],
      [slave_id |-> 18,  pdu |-> <<7>>] }

\* single bytes of line noise (0x42 is no function code, 0x03 is one)
NoiseBytes == {66, 3}

\* the byte a noise burst repeats
BurstByte == 66

\* n copies of the byte b
Rep(b, n) == [i \in 1..n |-> b]

\* what the peer's encoder writes for (a, p) into an empty output buffer
FrameBytes(a, p) == encode(<< >>, a, p)

\* the encoded frames of FrameSet
Encoded == [f \in FrameSet |-> FrameBytes(f.slave_id, f.pdu)]

\* the decoder of role r sizes the encoded frame b as carrying an n-byte PDU
SizedAs(r, b, n) == get_pdu_len(r, b) = PredLen(n)

\* the frames of FrameSet that are frames of role r's protocol direction
WellFormed == [r \in Roles |-> {f \in FrameSet : SizedAs(r, Encoded[f], Len(f.pdu))}]

-----------------------------------------------------------------------------
(* Results of decode() *)

NoResult == [kind |-> "None", slave_id |-> 0, pdu |-> << >>]
NeedMore == [kind |-> "NeedMore", slave_id |-> 0, pdu |-> << >>]
Frame(id, p) == [kind |-> "Frame", slave_id |-> id, pdu |-> p]

\* no encode() call since the output buffer was last flushed
NoEncode == [kind |-> "None", side |-> "none", prior |-> << >>,
             adu |-> [slave_id |-> 0, pdu |-> << >>, disconnect |-> FALSE]]

\* ClientCodec::decode / ServerCodec::decode has not been called
NoCodec == [kind |-> "None", parse |-> "None"]

\* calc_crc has not been applied
NoCrc == -1

\* what self.client.call(request) returned: Ok(Response::kind(values)) or
\* Err of an error kind
CallOk(kind, values) == [kind |-> kind, values |-> values, err |-> "none"]
CallErr(err) == [kind |-> "Err", values |-> << >>, err |-> err]

\* what a Context method returned: Ok(values), Err(kind, message), or a panic
CtxOk(values) == [kind |-> "Ok", values |-> values, err |-> "none", msg |-> "none"]
CtxErr(err, msg) == [kind |-> "Err", values |-> << >>, err |-> err, msg |-> msg]
CtxPanic == [kind |-> "Panic", values |-> << >>, err |-> "none", msg |-> "none"]

\* no Context method has been called
NoCtx == [method |-> "none", cnt |-> 0, debug |-> FALSE,
          rsp |-> CallErr("none"), result |-> CtxErr("none", "none")]

\* the predictor has not been applied
PredNone == [kind |-> "None", len |-> 0]

-----------------------------------------------------------------------------
(* The state machine *)

Init ==
    /\ role \in Roles
    /\ wire = << >>
    /\ buf = << >>
    /\ dropped_bytes = << >>
    /\ pc = "idle"
    /\ retry = FALSE
    /\ pdu_len = 0
    /\ res = NoResult
    /\ callBuf = << >>
    /\ callDropped = << >>
    /\ sent = << >>
    /\ recv = << >>
    /\ noise = 0
    /\ bursts = 0
    /\ is_readable = TRUE
    /\ write_buf = << >>
    /\ enc = NoEncode
    /\ pred = PredNone
    /\ codec = NoCodec
    /\ fed = << >>
    /\ allDropped = << >>
    /\ crc_val = NoCrc
    /\ ctx = NoCtx

\* the peer encodes (a, p) and writes the frame to the line
SendFrame ==
    /\ pc = "idle"
    /\ Len(sent) < MaxFrames
    /\ \E f \in FrameSet :
          /\ wire' = wire \o Encoded[f]
          /\ sent' = Append(sent, f)
    /\ UNCHANGED aux
    /\ UNCHANGED <<role, buf, dropped_bytes, pc, retry, pdu_len, res,
                   callBuf, callDropped, recv, noise, bursts, is_readable,
                   fed, allDropped>>

\* the line carries noise bytes before the first frame
SendNoise ==
    /\ pc = "idle"
    /\ noise < MaxNoise
    /\ sent = << >>
    /\ \E b \in NoiseBytes : wire' = Append(wire, b)
    /\ noise' = noise + 1
    /\ UNCHANGED aux
    /\ UNCHANGED <<role, buf, dropped_bytes, pc, retry, pdu_len, res,
                   callBuf, callDropped, sent, recv, bursts, is_readable,
                   fed, allDropped>>

\* the line carries a burst of noise before the first frame
SendBurst ==
    /\ pc = "idle"
    /\ bursts < MaxBursts
    /\ sent = << >> /\ noise = 0
    /\ wire' = wire \o Rep(BurstByte, BurstLen)
    /\ bursts' = bursts + 1
    /\ UNCHANGED aux
    /\ UNCHANGED <<role, buf, dropped_bytes, pc, retry, pdu_len, res,
                   callBuf, callDropped, sent, recv, noise, is_readable,
                   fed, allDropped>>

\* sizes of one read when n bytes are on the line: a few bytes, or all of them
ChunkSizes(n) == {k \in 1..n : k <= MaxChunk \/ k = n}

\* the transport reads the next k bytes of the line into the buffer, once
\* decode() has returned None for what the buffer held
ReadChunk(k) ==
    /\ pc = "idle"
    /\ ~is_readable
    /\ buf' = buf \o SubSeq(wire, 1, k)
    /\ wire' = SubSeq(wire, k + 1, Len(wire))
    /\ is_readable' = TRUE
    /\ fed' = fed \o SubSeq(wire, 1, k)
    /\ UNCHANGED aux
    /\ UNCHANGED <<role, dropped_bytes, pc, retry, pdu_len, res,
                   callBuf, callDropped, sent, recv, noise, bursts,
                   allDropped>>

Read == \E k \in ChunkSizes(Len(wire)) : ReadChunk(k)

\* a read that takes all the line holds
ReadAll == Len(wire) > 0 /\ ReadChunk(Len(wire))

\* entry of RequestDecoder::decode / ResponseDecoder::decode
EnterDecode ==
    /\ pc = "idle"
    /\ is_readable
    /\ pc' = "predict"
    /\ callBuf' = buf
    /\ callDropped' = << >>
    /\ UNCHANGED <<role, wire, buf, dropped_bytes, retry, pdu_len, res,
                   sent, recv, noise, bursts, is_readable,
                   fed, allDropped>>

\* RequestDecoder::decode / ResponseDecoder::decode is called: at the start,
\* after a read, and again after every frame it returned
Call ==
    /\ EnterDecode
    /\ UNCHANGED aux

\* loop head: `let mut retry = false; get_pdu_len(buf)`
Predict ==
    /\ pc = "predict"
    /\ retry' = FALSE
    /\ LET p == get_pdu_len(role, buf) IN
          CASE p.kind = "Len" ->
                  /\ pc' = "frame"
                  /\ pdu_len' = p.len
                  /\ UNCHANGED <<res, is_readable>>
            [] p.kind = "NeedMore" ->
                  /\ pc' = "idle"
                  /\ res' = NeedMore
                  /\ is_readable' = FALSE
                  /\ UNCHANGED pdu_len
            [] p.kind = "Err" ->
                  /\ pc' = "recover"
                  /\ UNCHANGED <<pdu_len, res, is_readable>>
            [] OTHER ->
                  /\ pc' = "panicked"
                  /\ UNCHANGED <<pdu_len, res, is_readable>>
    /\ UNCHANGED aux
    /\ UNCHANGED <<role, wire, buf, dropped_bytes, callBuf, callDropped,
                   sent, recv, noise, bursts,
                   fed, allDropped>>

\* the and_then closure: frame_decoder.decode(buf, pdu_len)
DecodeFrame ==
    /\ pc = "frame"
    /\ LET r == FrameDecoder_decode(dropped_bytes, buf, pdu_len) IN
          /\ buf' = r.buf
          /\ dropped_bytes' = r.dropped_bytes
          /\ CASE r.kind = "Frame" ->
                    /\ pc' = "idle"
                    /\ res' = Frame(r.slave_id, r.pdu)
                    /\ recv' = Append(recv, [slave_id |-> r.slave_id, pdu |-> r.pdu])
                    /\ is_readable' = TRUE
               [] r.kind = "NeedMore" ->
                    /\ pc' = "idle"
                    /\ res' = NeedMore
                    /\ is_readable' = FALSE
                    /\ UNCHANGED recv
               [] OTHER ->
                    /\ pc' = "recover"
                    /\ UNCHANGED <<res, recv, is_readable>>
    /\ UNCHANGED aux
    /\ UNCHANGED <<role, wire, retry, pdu_len, callBuf, callDropped,
                   sent, noise, bursts,
                   fed, allDropped>>

\* the or_else closure: frame_decoder.recover_on_error(buf); retry = true
Recover ==
    /\ pc = "recover"
    /\ IF buf = << >>
       THEN /\ pc' = "panicked"
            /\ UNCHANGED <<buf, dropped_bytes, retry, callDropped, allDropped>>
       ELSE LET r == recover_on_error(dropped_bytes, buf) IN
            /\ buf' = r.buf
            /\ dropped_bytes' = r.dropped_bytes
            /\ callDropped' = callDropped \o SubSeq(buf, 1, Len(buf) - Len(r.buf))
            /\ allDropped' = allDropped \o SubSeq(buf, 1, Len(buf) - Len(r.buf))
            /\ retry' = TRUE
            /\ pc' = "predict"
    /\ UNCHANGED aux
    /\ UNCHANGED <<role, wire, pdu_len, res, callBuf, sent, recv, noise, bursts,
                   is_readable,
                   fed>>

Next ==
    \/ SendFrame
    \/ SendNoise
    \/ Read
    \/ Call
    \/ Predict
    \/ DecodeFrame
    \/ Recover

Spec == Init /\ [][Next]_vars

\* the same decoder fed bursts of noise first: the dropped-byte log fills up
NextBurst ==
    \/ SendBurst
    \/ SendFrame
    \/ ReadAll
    \/ Call
    \/ Predict
    \/ DecodeFrame
    \/ Recover

SpecBurst == Init /\ [][NextBurst]_vars

\* the first bytes of a frame of the direction role r decodes whose byte
\* count field is 255: a read-holding-registers response (0x03), a
\* write-multiple-registers request (0x10)
OversizedHead(r) ==
    IF r = "response" THEN <<1, 3, 255>> ELSE <<1, 16, 0, 0, 0, 0, 255>>

\* the peer sends, once and before anything else, MAX_FRAME_LEN bytes that
\* begin like a frame with byte count 255
SendOversized ==
    /\ pc = "idle"
    /\ bursts = 0
    /\ sent = << >> /\ noise = 0
    /\ wire' = wire \o OversizedHead(role)
                    \o Rep(0, MAX_FRAME_LEN - Len(OversizedHead(role)))
    /\ bursts' = bursts + 1
    /\ UNCHANGED aux
    /\ UNCHANGED <<role, buf, dropped_bytes, pc, retry, pdu_len, res,
                   callBuf, callDropped, sent, recv, noise, is_readable,
                   fed, allDropped>>

\* the same decoder fed frames whose byte count announces more than a
\* frame can hold
NextOversized ==
    \/ SendOversized
    \/ SendFrame
    \/ ReadAll
    \/ Call
    \/ Predict
    \/ DecodeFrame
    \/ Recover

SpecOversized == Init /\ [][NextOversized]_vars

-----------------------------------------------------------------------------
(* The encoders, writing into an output buffer the transport flushes *)

\* ClientCodec::encode is called with a request ADU
ClientEncode ==
    /\ Len(write_buf) <= MaxOut
    /\ \E f \in FrameSet, d \in BOOLEAN :
          LET adu == [slave_id |-> f.slave_id, pdu |-> f.pdu, disconnect |-> d]
              r == ClientCodec_encode(write_buf, adu)
          IN  /\ write_buf' = r.buf
              /\ enc' = [kind |-> r.kind, side |-> "client",
                         prior |-> write_buf, adu |-> adu]
    /\ UNCHANGED <<decvars, pred, codec, crc_val, ctx>>

\* ServerCodec::encode is called with a response ADU
ServerEncode ==
    /\ Len(write_buf) <= MaxOut
    /\ \E f \in FrameSet :
          LET adu == [slave_id |-> f.slave_id, pdu |-> f.pdu, disconnect |-> FALSE]
              r == ServerCodec_encode(write_buf, adu)
          IN  /\ write_buf' = r.buf
              /\ enc' = [kind |-> r.kind, side |-> "server",
                         prior |-> write_buf, adu |-> adu]
    /\ UNCHANGED <<decvars, pred, codec, crc_val, ctx>>

\* the transport writes the output buffer out and leaves it empty
Flush ==
    /\ write_buf # << >>
    /\ write_buf' = << >>
    /\ enc' = NoEncode
    /\ UNCHANGED <<decvars, pred, codec, crc_val, ctx>>

NextEnc ==
    \/ ClientEncode
    \/ ServerEncode
    \/ Flush

SpecEnc == Init /\ [][NextEnc]_vars

-----------------------------------------------------------------------------
(* The typed codecs: ClientCodec::decode wraps the response decoder,       *)
(* ServerCodec::decode the request decoder, and both hand the PDU of a    *)
(* frame to the PDU parser                                                 *)

\* vendor-specific responses: subcall 0x0702, and a subcall without a length
VendorFrames ==
    { [slave_id |-> 1, pdu |-> <<254, 7, 2>>],
      [slave_id |-> 1, pdu |-> <<254, 0, 0>>] }

\* ResponsePdu::try_from(pdu_data) / RequestPdu::try_from(pdu_data): the
\* parser produces a typed PDU or reports a decoding error
ParseOutcomes == {"Ok", "Err"}

\* the and_then closure: a frame goes to the PDU parser, None stays None
and_then_parse(raw, parsed) ==
    IF raw.kind = "Frame"
    THEN (IF parsed = "Ok" THEN "Adu" ELSE "Err")
    ELSE "NeedMore"

\* the trailing map_err closure: unreachable!() on any Err of the chain
map_err_unreachable(r) == IF r = "Err" THEN "Panic" ELSE r

\* what the parser was asked and said
Parsed(raw, parsed) == IF raw.kind = "Frame" THEN parsed ELSE "None"

\* the peer writes a vendor-specific frame to the line
SendVendorFrame ==
    /\ codec.kind # "Pending"
    /\ pc = "idle"
    /\ Len(sent) < MaxFrames
    /\ \E f \in VendorFrames :
          /\ wire' = wire \o FrameBytes(f.slave_id, f.pdu)
          /\ sent' = Append(sent, f)
    /\ UNCHANGED aux
    /\ UNCHANGED <<role, buf, dropped_bytes, pc, retry, pdu_len, res,
                   callBuf, callDropped, recv, noise, bursts, is_readable,
                   fed, allDropped>>

\* the peer writes a frame while the codec is not inside decode()
CodecSend == codec.kind # "Pending" /\ SendFrame

\* the transport reads while the codec is not inside decode()
CodecRead == codec.kind # "Pending" /\ ReadAll

\* ClientCodec::decode / ServerCodec::decode is called: self.decoder.decode(buf)
CodecCall ==
    /\ codec.kind \in {"None", "NeedMore", "Adu"}
    /\ EnterDecode
    /\ codec' = [kind |-> "Pending", parse |-> "None"]
    /\ UNCHANGED <<write_buf, enc, pred, crc_val, ctx>>

\* the raw decoder has returned: and_then, map_err, return
CodecReturn ==
    /\ codec.kind = "Pending"
    /\ pc = "idle"
    /\ \E parsed \in ParseOutcomes :
          codec' = [kind |-> map_err_unreachable(and_then_parse(res, parsed)),
                    parse |-> Parsed(res, parsed)]
    /\ UNCHANGED <<decvars, write_buf, enc, pred, crc_val, ctx>>

NextCodec ==
    \/ CodecSend
    \/ SendVendorFrame
    \/ CodecRead
    \/ CodecCall
    \/ Predict
    \/ DecodeFrame
    \/ Recover
    \/ CodecReturn

SpecCodec == Init /\ [][NextCodec]_vars

-----------------------------------------------------------------------------
(* The client Context (src/src/client/mod.rs) over an underlying client    *)

\* a Vec::truncate that keeps the whole vector
truncate_keeps_all(v, n) == v

\* Vec::truncate(n)
truncate(v, n) == IF n < Len(v) THEN SubSeq(v, 1, n) ELSE v

\* read_coils / read_discrete_inputs after the call: expected is the response
\* kind of the method, debug tells whether debug assertions are compiled in
read_bits(expected, cnt, rsp, debug) ==
    IF rsp.kind = "Err" THEN CtxErr(rsp.err, "none")               \* .await?
    ELSE IF rsp.kind = expected
    THEN IF debug /\ ~(Len(rsp.values) >= cnt)
         THEN CtxPanic                   \* debug_assert!(coils.len() >= cnt)
         ELSE CtxOk(truncate(rsp.values, cnt))
    ELSE CtxErr("InvalidData", "unexpected response")

\* read_input_registers / read_holding_registers /
\* read_write_multiple_registers after the call
read_words(expected, cnt, rsp) ==
    IF rsp.kind = "Err" THEN CtxErr(rsp.err, "none")               \* .await?
    ELSE IF rsp.kind = expected
    THEN IF Len(rsp.values) # cnt
         THEN CtxErr("InvalidData", "invalid response")
         ELSE CtxOk(rsp.values)
    ELSE CtxErr("InvalidData", "unexpected response")

\* the match of Context::disconnect on the result of the call
disconnect_match(rsp) ==
    IF rsp.kind # "Err" THEN CtxPanic                         \* unreachable!()
    ELSE IF rsp.err \in {"NotConnected", "BrokenPipe"} THEN CtxOk(<< >>)
    ELSE CtxErr(rsp.err, "none")

\* the request ADU the client service builds for Request::Disconnect
DisconnectAdu == [slave_id |-> 1, pdu |-> << >>, disconnect |-> TRUE]

\* self.client.call(Request::Disconnect): a transport that is up hands the
\* ADU to ClientCodec::encode and fails with what it returns; a transport
\* that is down fails with its own error
call_disconnect(transport, dst) ==
    IF transport = "up"
    THEN LET e == ClientCodec_encode(dst, DisconnectAdu)
         IN  IF e.kind = "Ok" THEN CallOk("Disconnected", << >>) ELSE CallErr(e.kind)
    ELSE CallErr(transport)

\* states of the transport under the client
Transports == {"up", "BrokenPipe", "TimedOut"}

\* the coils of the tests, one byte of them
TestCoils == <<TRUE, FALSE, FALSE, TRUE, FALSE, TRUE, FALSE, TRUE>>

\* the responses the underlying client can return: bit responses carry whole
\* bytes of coils, register responses any number of words, or the call fails
BitKinds == {"ReadCoils", "ReadDiscreteInputs"}
WordKinds == {"ReadInputRegisters", "ReadHoldingRegisters", "ReadWriteMultipleRegisters"}

Responses ==
    {CallOk(k, v) : k \in BitKinds, v \in {<< >>, TestCoils, TestCoils \o TestCoils}}
        \cup {CallOk(k, [i \in 1..n |-> IF i = 3 THEN 119 ELSE 0]) :
                  k \in WordKinds, n \in 0..MaxCnt}
        \cup {CallErr(e) : e \in {"TimedOut", "InvalidData"}}

\* Context::read_coils(addr, cnt)
ReadCoils ==
    /\ ctx = NoCtx
    /\ \E cnt \in 0..MaxCnt, rsp \in Responses, debug \in BOOLEAN :
          ctx' = [method |-> "read_coils", cnt |-> cnt, debug |-> debug, rsp |-> rsp,
                  result |-> read_bits("ReadCoils", cnt, rsp, debug)]
    /\ UNCHANGED <<decvars, write_buf, enc, pred, codec, crc_val>>

\* Context::read_discrete_inputs(addr, cnt)
ReadDiscreteInputs ==
    /\ ctx = NoCtx
    /\ \E cnt \in 0..MaxCnt, rsp \in Responses, debug \in BOOLEAN :
          ctx' = [method |-> "read_discrete_inputs", cnt |-> cnt, debug |-> debug,
                  rsp |-> rsp,
                  result |-> read_bits("ReadDiscreteInputs", cnt, rsp, debug)]
    /\ UNCHANGED <<decvars, write_buf, enc, pred, codec, crc_val>>

\* Context::read_input_registers(addr, cnt)
ReadInputRegisters ==
    /\ ctx = NoCtx
    /\ \E cnt \in 0..MaxCnt, rsp \in Responses, debug \in BOOLEAN :
          ctx' = [method |-> "read_input_registers", cnt |-> cnt, debug |-> debug,
                  rsp |-> rsp,
                  result |-> read_words("ReadInputRegisters", cnt, rsp)]
    /\ UNCHANGED <<decvars, write_buf, enc, pred, codec, crc_val>>

\* Context::read_holding_registers(addr, cnt)
ReadHoldingRegisters ==
    /\ ctx = NoCtx
    /\ \E cnt \in 0..MaxCnt, rsp \in Responses, debug \in BOOLEAN :
          ctx' = [method |-> "read_holding_registers", cnt |-> cnt, debug |-> debug,
                  rsp |-> rsp,
                  result |-> read_words("ReadHoldingRegisters", cnt, rsp)]
    /\ UNCHANGED <<decvars, write_buf, enc, pred, codec, crc_val>>

\* Context::read_write_multiple_registers(read_addr, read_cnt, write_addr, write_data)
ReadWriteMultipleRegisters ==
    /\ ctx = NoCtx
    /\ \E cnt \in 0..MaxCnt, rsp \in Responses, debug \in BOOLEAN :
          ctx' = [method |-> "read_write_multiple_registers", cnt |-> cnt,
                  debug |-> debug, rsp |-> rsp,
                  result |-> read_words("ReadWriteMultipleRegisters", cnt, rsp)]
    /\ UNCHANGED <<decvars, write_buf, enc, pred, codec, crc_val>>

\* Context::disconnect()
Disconnect ==
    /\ ctx = NoCtx
    /\ \E transport \in Transports, debug \in BOOLEAN :
          LET rsp == call_disconnect(transport, write_buf)
          IN  ctx' = [method |-> "disconnect", cnt |-> 0, debug |-> debug, rsp |-> rsp,
                      result |-> disconnect_match(rsp)]
    /\ UNCHANGED <<decvars, write_buf, enc, pred, codec, crc_val>>

\* the caller takes the result of the method; the next call can begin
TakeResult ==
    /\ ctx # NoCtx
    /\ ctx.result.kind # "Panic"
    /\ ctx' = NoCtx
    /\ UNCHANGED <<decvars, write_buf, enc, pred, codec, crc_val>>

NextCtx ==
    \/ ReadCoils
    \/ ReadDiscreteInputs
    \/ ReadInputRegisters
    \/ ReadHoldingRegisters
    \/ ReadWriteMultipleRegisters
    \/ Disconnect
    \/ TakeResult

SpecCtx == Init /\ [][NextCtx]_vars

-----------------------------------------------------------------------------
(* calc_crc applied on its own *)

\* byte values of the longer inputs
CrcBytes == {0, 1, 3, 128, 255}

\* all sequences over S of length up to n
SeqsUpTo(S, n) == UNION {[1..k -> S] : k \in 0..n}

\* the inputs: every single byte, all short sequences over CrcBytes, the
\* two messages of test_calc_crc and the address + PDU of the frame catalogue
CrcInputs ==
    {<<b>> : b \in 0..255} \cup SeqsUpTo(CrcBytes, MaxCrcLen)
        \cup {<<1, 3, 8, 43, 0, 2>>, <<1, 3, 4, 0, 32, 0, 0>>}
        \cup {<<f.slave_id>> \o f.pdu : f \in FrameSet}

InitCrc ==
    /\ role = "request"
    /\ buf \in CrcInputs
    /\ crc_val = NoCrc
    /\ pred = PredNone
    /\ wire = << >>
    /\ dropped_bytes = << >>
    /\ pc = "idle"
    /\ retry = FALSE
    /\ pdu_len = 0
    /\ res = NoResult
    /\ callBuf = << >>
    /\ callDropped = << >>
    /\ sent = << >>
    /\ recv = << >>
    /\ noise = 0
    /\ bursts = 0
    /\ is_readable = TRUE
    /\ write_buf = << >>
    /\ enc = NoEncode
    /\ codec = NoCodec
    /\ fed = << >>
    /\ allDropped = << >>
    /\ ctx = NoCtx

\* calc_crc(&buf)
ApplyCrc ==
    /\ crc_val = NoCrc
    /\ crc_val' = calc_crc(buf)
    /\ UNCHANGED <<decvars, write_buf, enc, pred, codec, ctx>>

NextCrc == ApplyCrc

SpecCrc == InitCrc /\ [][NextCrc]_vars

-----------------------------------------------------------------------------
(* The length predictors applied on their own to buffers of any content *)

\* the bytes written at offsets 2 and 6 and 10 (byte counts, subcall high
\* byte) and at offset 3 (subcall low byte, count low byte)
CountBytes == {0, 1, 7, 99, 255}
LowBytes == {0, 1, 2, 3, 4, 5}

\* the first n bytes of: address 0x66, function code fn, then b2, b3 and b2
\* repeated
PredBuffer(fn, b2, b3, n) ==
    SubSeq(<<102, fn, b2, b3>> \o Rep(b2, MaxBufLen), 1, n)

PredInputs ==
    {PredBuffer(fn, b2, b3, n) :
        fn \in 0..255, b2 \in CountBytes, b3 \in LowBytes, n \in 0..MaxBufLen}

InitPred ==
    /\ role \in Roles
    /\ buf \in PredInputs
    /\ pred = PredNone
    /\ wire = << >>
    /\ dropped_bytes = << >>
    /\ pc = "idle"
    /\ retry = FALSE
    /\ pdu_len = 0
    /\ res = NoResult
    /\ callBuf = << >>
    /\ callDropped = << >>
    /\ sent = << >>
    /\ recv = << >>
    /\ noise = 0
    /\ bursts = 0
    /\ is_readable = TRUE
    /\ write_buf = << >>
    /\ enc = NoEncode
    /\ codec = NoCodec
    /\ fed = << >>
    /\ allDropped = << >>
    /\ crc_val = NoCrc
    /\ ctx = NoCtx

\* get_request_pdu_len(&buf) / get_response_pdu_len(&buf)
ApplyPredictor ==
    /\ pred = PredNone
    /\ pred' = get_pdu_len(role, buf)
    /\ UNCHANGED <<decvars, write_buf, enc, codec, crc_val, ctx>>

NextPred == ApplyPredictor

SpecPred == InitPred /\ [][NextPred]_vars

-----------------------------------------------------------------------------
(* Vocabulary of the properties *)

\* a decode() call has returned and the buffer is still as it left it
JustReturned ==
    /\ pc = "idle"
    /\ \/ res.kind = "Frame"
       \/ res.kind = "NeedMore" /\ ~is_readable

\* inside a decode() call
InCall == pc \in {"predict", "frame", "recover"}

\* b ends with the sequence t
EndsWith(b, t) ==
    /\ Len(b) >= Len(t)
    /\ SubSeq(b, Len(b) - Len(t) + 1, Len(b)) = t

\* b is a strict prefix of t
StrictPrefix(b, t) ==
    /\ Len(b) < Len(t)
    /\ b = SubSeq(t, 1, Len(b))

\* what one pass of the decode loop finds at the head of buffer b:
\* "Frame", "NeedMore", "Err" or "Panic"
Attempt(r, b) ==
    LET p == get_pdu_len(r, b)
    IN  IF p.kind = "Len" THEN FrameDecoder_decode(<< >>, b, p.len).kind
        ELSE p.kind

\* the decode attempt fails with an error at each of the first k start
\* positions of b
GarbageAt(r, b, k) ==
    \A i \in 1..k : Attempt(r, SubSeq(b, i, Len(b))) = "Err"

\* the peer sent nothing but frames of the decoder's direction
Clean ==
    /\ noise = 0
    /\ bursts = 0
    /\ \A i \in 1..Len(sent) : sent[i] \in WellFormed[role]

\* the vendor function code 0xFE with a subcall other than 0x0701-0x0704,
\* in front of the response predictor
UnsupportedSubcall ==
    /\ role = "response"
    /\ Len(buf) >= 4
    /\ buf[2] = 254
    /\ (buf[3] * 256 + buf[4]) \notin 1793..1796

-----------------------------------------------------------------------------
(* C1 *)

\* C1 as stated: for every address a and every PDU p, a decode() call on
\* exactly the encoded frame of (a, p) returns (a, p) and leaves the buffer
\* empty, with either decoder.
C1_RoundTripAnyPdu ==
    \A f \in FrameSet :
        (JustReturned /\ callBuf = Encoded[f])
            => (res = Frame(f.slave_id, f.pdu) /\ buf = << >>)

\* C1 amended: the round trip holds for every (a, p) whose encoded frame the
\* decoder's own length predictor sizes as carrying Len(p) PDU bytes.
C1_RoundTrip ==
    \A f \in WellFormed[role] :
        (JustReturned /\ callBuf = Encoded[f])
            => (res = Frame(f.slave_id, f.pdu) /\ buf = << >>)

C1_Witness ==
    \E f \in WellFormed[role] :
        JustReturned /\ callBuf = Encoded[f] /\ Len(f.pdu) > 1

-----------------------------------------------------------------------------
(* C2 *)

\* C2 as stated: when the buffer is G ++ F, F a valid encoded frame and G any
\* bytes with Len(G) <= 255, one decode() call returns F's (address, PDU) and
\* consumes the whole buffer.
C2_AnyGarbage ==
    \A f \in WellFormed[role] :
        (/\ JustReturned
         /\ EndsWith(callBuf, Encoded[f])
         /\ Len(callBuf) - Len(Encoded[f]) <= 255)
            => (res = Frame(f.slave_id, f.pdu) /\ buf = << >>)

\* C2 amended: the same, provided the decode attempt fails with an error
\* (invalid function code, or CRC mismatch of a complete candidate frame) at
\* every start position inside G; the dropped bytes are then exactly G.
C2_ProgressUnderGarbage ==
    \A f \in WellFormed[role] :
        LET g == Len(callBuf) - Len(Encoded[f]) IN
        (/\ JustReturned
         /\ EndsWith(callBuf, Encoded[f])
         /\ g <= 255
         /\ GarbageAt(role, callBuf, g))
            => /\ res = Frame(f.slave_id, f.pdu)
               /\ buf = << >>
               /\ callDropped = SubSeq(callBuf, 1, g)

C2_Witness ==
    \E f \in WellFormed[role] :
        LET g == Len(callBuf) - Len(Encoded[f]) IN
        /\ JustReturned
        /\ EndsWith(callBuf, Encoded[f])
        /\ g > 100 /\ g <= 255
        /\ GarbageAt(role, callBuf, g)

-----------------------------------------------------------------------------
(* C3 *)

\* the buffer the current call began with is a strict prefix of a frame of
\* the decoder's direction
CallOnStrictPrefix ==
    \E f \in WellFormed[role] : StrictPrefix(callBuf, Encoded[f])

\* C3: a decode() call on a strict prefix of a valid frame (the empty buffer
\* and a single byte included) changes neither the buffer nor the
\* dropped-byte log in any of its steps, meets no error, and returns
\* "need more bytes".
C3_IncompleteUntouched ==
    [][(InCall /\ CallOnStrictPrefix)
          => /\ buf' = buf
             /\ dropped_bytes' = dropped_bytes
             /\ pc' \in {"frame", "idle"}
             /\ (pc' = "idle" => res' = NeedMore)]_vars

C3_Witness ==
    /\ JustReturned
    /\ CallOnStrictPrefix
    /\ Len(callBuf) >= 3
    /\ dropped_bytes # << >>

-----------------------------------------------------------------------------
(* C4 *)

\* the on-wire bytes of the frame the last call returned, empty for None
ReturnedBytes ==
    IF res.kind = "Frame" THEN FrameBytes(res.slave_id, res.pdu) ELSE << >>

\* C4: after a decode() call on buffer B, B = D ++ X ++ R: D the bytes the
\* call dropped, in order, X the address, PDU and CRC of the frame it
\* returned (empty for "need more bytes"), R the buffer it left; during the
\* call B = D ++ buf.
C4_Conservation ==
    /\ JustReturned => callBuf = callDropped \o ReturnedBytes \o buf
    /\ InCall => callBuf = callDropped \o buf

C4_Witness ==
    /\ JustReturned
    /\ res.kind = "Frame"
    /\ callDropped # << >>
    /\ buf # << >>

-----------------------------------------------------------------------------
(* C5 *)

\* C5: when FrameDecoder::decode returns a frame for predicted PDU length n,
\* it has removed exactly n + 3 bytes from the front of the buffer, the
\* address is the first of them, the PDU the next n (the function code
\* first), and the bytes after the frame stay in the buffer in order.
C5_FrameConsumed ==
    [][(pc = "frame" /\ pc' = "idle" /\ res'.kind = "Frame")
          => /\ Len(buf) >= pdu_len + 3
             /\ Len(buf') = Len(buf) - (pdu_len + 3)
             /\ res'.slave_id = buf[1]
             /\ res'.pdu = SubSeq(buf, 2, pdu_len + 1)
             /\ Len(res'.pdu) = pdu_len
             /\ buf' = SubSeq(buf, pdu_len + 4, Len(buf))]_vars

C5_Witness ==
    /\ JustReturned
    /\ res.kind = "Frame"
    /\ Len(res.pdu) = 6
    /\ buf # << >>

-----------------------------------------------------------------------------
(* C6 *)

\* C6: an error of the predictor or of the frame decoder leaves the buffer
\* as it was and leads to the resync step; the resync step removes exactly
\* the first byte, keeps the rest unchanged, records that byte as dropped,
\* and only then is the predictor invoked again.
C6_OneBytePerError ==
    [][/\ (pc \in {"predict", "frame"} /\ pc' = "recover") => buf' = buf
       /\ pc = "recover"
            => /\ buf # << >>
               /\ pc' = "predict"
               /\ Len(buf') = Len(buf) - 1
               /\ buf = <<buf[1]>> \o buf'
               /\ callDropped' = Append(callDropped, buf[1])]_vars

C6_Witness ==
    /\ pc = "predict"
    /\ retry
    /\ Len(callDropped) >= 2
    /\ Len(buf) >= 2

-----------------------------------------------------------------------------
(* C7 *)

\* the buffer holds a complete candidate frame of n PDU bytes
Complete(b, n) == Len(b) >= n + 3

\* the CRC of the first n + 1 bytes of b matches the two bytes after them
CrcMatches(b, n) ==
    check_crc(SubSeq(b, 1, n + 1), read_u16_BE(SubSeq(b, n + 2, n + 3)))

\* C7: FrameDecoder::decode on a buffer with at least n + 3 bytes whose CRC
\* does not match returns an error and leaves buffer and log as they were;
\* on a buffer with fewer than n + 3 bytes it returns "need more bytes" and
\* leaves buffer and log as they were.
C7_FrameDecodeNonDestructive ==
    [][pc = "frame"
          => /\ (Complete(buf, pdu_len) /\ ~CrcMatches(buf, pdu_len))
                   => /\ pc' = "recover"
                      /\ buf' = buf
                      /\ dropped_bytes' = dropped_bytes
             /\ ~Complete(buf, pdu_len)
                   => /\ pc' = "idle"
                      /\ res' = NeedMore
                      /\ buf' = buf
                      /\ dropped_bytes' = dropped_bytes]_vars

C7_Witness ==
    /\ pc = "recover"
    /\ get_pdu_len(role, buf).kind = "Len"
    /\ Complete(buf, pdu_len)
    /\ Len(buf) > pdu_len + 3
    /\ dropped_bytes # << >>

-----------------------------------------------------------------------------
(* C8 *)

\* C8: when the peer sends only valid frames F1, F2, ..., delivered in any
\* chunks, the decoder returns them in that order, none skipped, duplicated
\* or reordered, drops no byte, and has returned all of them once it asks
\* for more bytes with nothing left on the line.
C8_Ordering ==
    Clean =>
        /\ Len(recv) <= Len(sent)
        /\ recv = SubSeq(sent, 1, Len(recv))
        /\ callDropped = << >>
        /\ pc \notin {"recover", "panicked"}
        /\ (JustReturned /\ res.kind = "NeedMore" /\ wire = << >>) => recv = sent

C8_Witness ==
    /\ Clean
    /\ Len(recv) = 2
    /\ recv[1] # recv[2]

-----------------------------------------------------------------------------
(* C9 *)

\* C9: the dropped-byte log never holds more than 256 bytes.
C9_LogBounded == Len(dropped_bytes) <= MAX_FRAME_LEN

C9_Witness ==
    /\ Len(dropped_bytes) = MAX_FRAME_LEN
    /\ pc = "recover"

-----------------------------------------------------------------------------
(* C10 *)

\* C10: right after a decode() call that returned a frame the dropped-byte
\* log is empty, whatever was dropped in this call or in earlier ones.
C10_LogClearedOnSuccess ==
    (pc = "idle" /\ res.kind = "Frame") => dropped_bytes = << >>

C10_Witness ==
    /\ pc = "idle"
    /\ res.kind = "Frame"
    /\ callDropped # << >>

-----------------------------------------------------------------------------
(* C11 *)

\* the bytes encode() appends for (a, p) when the CRC covers address and PDU
AppendedFrame(a, p) == put_u16(<<a>> \o p, calc_crc(<<a>> \o p))

\* C11: whatever the output buffer held before (P), after a successful
\* encode(address, pdu) it holds P, then the address, the PDU and the CRC-16
\* of address ++ pdu alone: the CRC covers only the bytes just appended.
C11_CrcOverAppended ==
    enc.kind = "Ok" =>
        write_buf = enc.prior \o AppendedFrame(enc.adu.slave_id, enc.adu.pdu)

-----------------------------------------------------------------------------
(* C12 *)

\* C12: encoding into an empty buffer appends exactly len(pdu) + 3 bytes:
\* the address, the PDU, then the low byte and the high byte of the CRC-16
\* accumulator; slave 0x01 with PDU 03 08 2B 00 02 gives
\* 01 03 08 2B 00 02 B6 63.
C12_EncodeIntoEmpty ==
    (enc.kind = "Ok" /\ enc.prior = << >>) =>
        LET a == enc.adu.slave_id
            p == enc.adu.pdu
            acc == calc_crc_swapless(<<a>> \o p)
        IN  /\ Len(write_buf) = Len(p) + 3
            /\ write_buf = (<<a>> \o p) \o <<acc % 256, acc \div 256>>
            /\ (a = 1 /\ p = <<3, 8, 43, 0, 2>>)
                   => write_buf = <<1, 3, 8, 43, 0, 2, 182, 99>>

\* the example frame has been encoded into an empty buffer
C12_Witness ==
    /\ enc.kind = "Ok"
    /\ enc.prior = << >>
    /\ write_buf = <<1, 3, 8, 43, 0, 2, 182, 99>>

-----------------------------------------------------------------------------
(* C13 *)

\* C13: the client encoder called with the disconnect flag set returns the
\* not-connected error and leaves the output buffer as it was; called with
\* the flag clear it never returns an error.
C13_DisconnectSentinel ==
    enc.side = "client" =>
        /\ enc.adu.disconnect => (enc.kind = "NotConnected" /\ write_buf = enc.prior)
        /\ ~enc.adu.disconnect => enc.kind = "Ok"

\* a disconnect ADU was handed to the client encoder while the output buffer
\* held an earlier frame
C13_Witness ==
    /\ enc.side = "client"
    /\ enc.adu.disconnect
    /\ enc.kind = "NotConnected"
    /\ enc.prior # << >>
    /\ write_buf = enc.prior

-----------------------------------------------------------------------------
(* C14 *)

\* the response table with exception codes lo..hi, for a buffer b of two or
\* more bytes whose function code is not 0xFE
ResponseTable(b, lo, hi) ==
    LET fn == b[2] IN
    CASE fn \in {1, 2, 3, 4, 12, 23} ->
            IF Len(b) < 3 THEN [kind |-> "NeedMore", len |-> 0]
            ELSE [kind |-> "Len", len |-> 2 + b[3]]
      [] fn \in {5, 6, 11, 15, 16} -> [kind |-> "Len", len |-> 5]
      [] fn = 7 -> [kind |-> "Len", len |-> 2]
      [] fn = 22 -> [kind |-> "Len", len |-> 7]
      [] fn = 24 ->
            IF Len(b) < 4 THEN [kind |-> "NeedMore", len |-> 0]
            ELSE [kind |-> "Len", len |-> 3 + (b[3] * 256 + b[4])]
      [] fn \in lo..hi -> [kind |-> "Len", len |-> 2]
      [] OTHER -> [kind |-> "Err", len |-> 0]

\* the response predictor has been applied to a buffer of two or more bytes
\* whose function code is not the vendor code 0xFE
ResponseApplied ==
    /\ role = "response"
    /\ pred # PredNone
    /\ Len(buf) >= 2
    /\ buf[2] # 254

-----------------------------------------------------------------------------
(* C15 *)

\* the request table for a buffer b
RequestTable(b) ==
    IF Len(b) < 2 THEN [kind |-> "NeedMore", len |-> 0]
    ELSE LET fn == b[2] IN
    CASE fn \in 1..6 -> [kind |-> "Len", len |-> 5]
      [] fn \in {7, 11, 12, 17} -> [kind |-> "Len", len |-> 1]
      [] fn \in {15, 16} ->
            IF Len(b) < 7 THEN [kind |-> "NeedMore", len |-> 0]
            ELSE [kind |-> "Len", len |-> 6 + b[7]]
      [] fn = 22 -> [kind |-> "Len", len |-> 7]
      [] fn = 23 ->
            IF Len(b) < 11 THEN [kind |-> "NeedMore", len |-> 0]
            ELSE [kind |-> "Len", len |-> 10 + b[11]]
      [] fn = 24 -> [kind |-> "Len", len |-> 3]
      [] OTHER -> [kind |-> "Err", len |-> 0]

\* C15: the request predictor agrees with the request table: 5 for
\* 0x01-0x06, 1 for 0x07, 0x0B, 0x0C, 0x11, 6 + byte count at offset 6 for
\* 0x0F and 0x10 (need more below 7 bytes; count 99 gives 105), 7 for 0x16,
\* 10 + byte count at offset 10 for 0x17 (need more below 11 bytes), 3 for
\* 0x18, an error for every other code, and need more, not an error, for
\* every buffer shorter than 2 bytes.
C15_RequestTable ==
    (role = "request" /\ pred # PredNone) =>
        /\ pred = RequestTable(buf)
        /\ (Len(buf) >= 7 /\ buf[2] \in {15, 16} /\ buf[7] = 99)
               => pred = [kind |-> "Len", len |-> 105]

\* the request predictor has sized a write-multiple request with byte count
\* 99
C15_Witness ==
    /\ role = "request"
    /\ Len(buf) >= 7
    /\ buf[2] = 16
    /\ buf[7] = 99
    /\ pred = [kind |-> "Len", len |-> 105]

-----------------------------------------------------------------------------
(* C16 *)

\* the function codes role r's predictor recognizes
Recognized(r) == IF r = "request" THEN RecognizedRequest ELSE RecognizedResponse

\* the predictor has been applied to a buffer that holds a function code
PredApplied == pred # PredNone /\ Len(buf) >= 2

\* C16 as stated: on a recognized function code, 0xFE with any subcall
\* included, the predictor returns a length or need-more; on any other code
\* it returns an error; it never faults.
C16_TotalAnySubcall ==
    PredApplied =>
        IF buf[2] \in Recognized(role)
        THEN pred.kind \in {"Len", "NeedMore"}
        ELSE pred.kind = "Err"

\* C16: on a recognized function code the predictor returns a length or
\* need-more, for 0xFE when fewer than 4 bytes are buffered or the subcall
\* is 0x0701-0x0704; on 0xFE with any other subcall it aborts; on any
\* unrecognized code it returns an error; it faults in no other case.
C16_Total ==
    PredApplied =>
        /\ (buf[2] \in Recognized(role) /\ ~UnsupportedSubcall)
               => pred.kind \in {"Len", "NeedMore"}
        /\ UnsupportedSubcall => pred.kind = "Panic"
        /\ buf[2] \notin Recognized(role) => pred.kind = "Err"

\* the response predictor has sized 0xFE with the supported subcall 0x0704
C16_Witness ==
    /\ PredApplied
    /\ role = "response"
    /\ Len(buf) >= 4
    /\ buf[2] = 254 /\ buf[3] = 7 /\ buf[4] = 4
    /\ pred = [kind |-> "Len", len |-> 71]

-----------------------------------------------------------------------------
(* C17 *)

\* C17: every PDU length a predictor hands to the frame decoder is at most
\* 253, so that no frame (address, PDU, CRC) is longer than 256 bytes.
C17_MaxPduLen ==
    pred.kind = "Len" => pred.len + 3 <= MAX_FRAME_LEN

-----------------------------------------------------------------------------
(* C18 *)

\* C18: ClientCodec::decode and ServerCodec::decode end in one of three
\* ways: need more bytes, a typed ADU, or an error returned to the caller;
\* when the raw decoder yields a CRC-valid frame whose PDU the parser
\* rejects, they return that error.
C18_ParseErrorReturned ==
    /\ codec.kind \in {"None", "Pending", "NeedMore", "Adu", "Err"}
    /\ codec.parse = "Err" => codec.kind = "Err"

-----------------------------------------------------------------------------
(* C19 *)

-----------------------------------------------------------------------------
(* C20 *)

\* the sequence t stands in b right after the first k bytes
OccursAt(b, k, t) ==
    /\ k + Len(t) <= Len(b)
    /\ SubSeq(b, k + 1, k + Len(t)) = t

\* C20: when the buffer of a decode() call is g_1..g_k, then a valid frame F,
\* then any bytes T, and the decode attempt fails with an error at each of
\* the start positions 1..k, the call returns F's (address, PDU), drops
\* exactly the k leading bytes and leaves exactly T in the buffer.
C20_ResyncToFirstValid ==
    \A f \in WellFormed[role] : \A k \in 0..Len(callBuf) :
        (/\ pc = "idle"
         /\ res.kind # "None"
         /\ OccursAt(callBuf, k, Encoded[f])
         /\ GarbageAt(role, callBuf, k))
            => /\ res = Frame(f.slave_id, f.pdu)
               /\ callDropped = SubSeq(callBuf, 1, k)
               /\ buf = SubSeq(callBuf, k + Len(Encoded[f]) + 1, Len(callBuf))

\* a call on garbage, a valid frame and trailing bytes has returned the frame
C20_Witness ==
    \E f \in WellFormed[role] : \E k \in 1..Len(callBuf) :
        /\ JustReturned
        /\ OccursAt(callBuf, k, Encoded[f])
        /\ GarbageAt(role, callBuf, k)
        /\ Len(callBuf) > k + Len(Encoded[f])
        /\ res = Frame(f.slave_id, f.pdu)
        /\ buf # << >>

-----------------------------------------------------------------------------
(* C21 *)

\* the reference CRC-16/Modbus on 16-bit words as sets of bit positions
BitsOf(n) == {i \in 0..15 : (n \div (2 ^ i)) % 2 = 1}

RECURSIVE WordOf(_)
WordOf(S) ==
    IF S = {} THEN 0
    ELSE LET i == CHOOSE j \in S : TRUE IN (2 ^ i) + WordOf(S \ {i})

SymDiff(S, T) == (S \ T) \cup (T \ S)

\* one right shift, XORing 0xA001 (bits 15, 13, 0) when the bit shifted out
\* is 1
RefShift(S) ==
    LET shifted == {i - 1 : i \in S \ {0}}
    IN  IF 0 \in S THEN SymDiff(shifted, {15, 13, 0}) ELSE shifted

\* the byte x XORed into the low byte, then eight shifts
RefByte(S, x) ==
    RefShift(RefShift(RefShift(RefShift(
        RefShift(RefShift(RefShift(RefShift(SymDiff(S, BitsOf(x))))))))))

RECURSIVE RefAcc(_, _)
\* the accumulator after the first n bytes of data, from 0xFFFF
RefAcc(data, n) ==
    IF n = 0 THEN 0..15 ELSE RefByte(RefAcc(data, n - 1), data[n])

\* the accumulator with its two bytes swapped
RefCrc(data) == WordOf({(i + 8) % 16 : i \in RefAcc(data, Len(data))})

\* C21: calc_crc equals the reference CRC-16/Modbus (initial value 0xFFFF,
\* each byte XORed into the low byte, eight right shifts XORing 0xA001 when
\* the bit shifted out is 1) with the final accumulator byte-swapped; it
\* gives 0xB663 for 01 03 08 2B 00 02 and 0xFBF9 for 01 03 04 00 20 00 00,
\* and the result fits in 16 bits.
C21_CrcReference ==
    crc_val # NoCrc =>
        /\ crc_val = RefCrc(buf)
        /\ crc_val \in 0..65535
        /\ buf = <<1, 3, 8, 43, 0, 2>> => crc_val = 46691
        /\ buf = <<1, 3, 4, 0, 32, 0, 0>> => crc_val = 64505

\* calc_crc has been applied to the second message of test_calc_crc
C21_Witness ==
    /\ buf = <<1, 3, 4, 0, 32, 0, 0>>
    /\ crc_val = 64505

-----------------------------------------------------------------------------
(* C22 *)

\* the response kind a bit reader expects
BitKindOf(method) ==
    IF method = "read_coils" THEN "ReadCoils" ELSE "ReadDiscreteInputs"

\* C22: read_coils(addr, cnt) and read_discrete_inputs(addr, cnt), given a
\* response of the matching kind with at least cnt values, return exactly its
\* first cnt values in order; a response of any other kind gives the
\* InvalidData error "unexpected response".
C22_FirstCntValues ==
    ctx.method \in {"read_coils", "read_discrete_inputs"} =>
        /\ (ctx.rsp.kind = BitKindOf(ctx.method) /\ Len(ctx.rsp.values) >= ctx.cnt)
               => ctx.result = CtxOk(SubSeq(ctx.rsp.values, 1, ctx.cnt))
        /\ (ctx.rsp.kind \in (BitKinds \cup WordKinds) \ {BitKindOf(ctx.method)})
               => ctx.result = CtxErr("InvalidData", "unexpected response")

\* read_coils asked for 3 coils and got the first 3 of a byte of 8
C22_Witness ==
    /\ ctx.method = "read_coils"
    /\ ctx.cnt = 3
    /\ ctx.rsp = CallOk("ReadCoils", TestCoils)
    /\ ctx.result.kind = "Ok"
    /\ ctx.result.values = <<TRUE, FALSE, FALSE>>

-----------------------------------------------------------------------------
(* C23 *)

\* C23: Context::disconnect returns Ok(()) exactly when the call of
\* Request::Disconnect fails with NotConnected or BrokenPipe, returns any
\* other error unchanged, and the call never succeeds, so that the Ok
\* branch is never taken.
C23_Disconnect ==
    ctx.method = "disconnect" =>
        /\ ctx.rsp.kind = "Err"
        /\ ctx.result.kind # "Panic"
        /\ ctx.result.kind = "Ok" <=> ctx.rsp.err \in {"NotConnected", "BrokenPipe"}
        /\ ctx.rsp.err \notin {"NotConnected", "BrokenPipe"}
               => ctx.result = CtxErr(ctx.rsp.err, "none")

\* disconnect over a transport that is up: the encoder's sentinel error
\* became Ok(())
C23_Witness ==
    /\ ctx.method = "disconnect"
    /\ ctx.rsp = CallErr("NotConnected")
    /\ ctx.result = CtxOk(<< >>)

-----------------------------------------------------------------------------
(* C29 *)

\* the response kind a reader method expects
KindOf(method) ==
    CASE method = "read_coils" -> "ReadCoils"
      [] method = "read_discrete_inputs" -> "ReadDiscreteInputs"
      [] method = "read_input_registers" -> "ReadInputRegisters"
      [] method = "read_holding_registers" -> "ReadHoldingRegisters"
      [] OTHER -> "ReadWriteMultipleRegisters"

\* the Context reader methods
ReaderMethods ==
    {"read_coils", "read_discrete_inputs", "read_input_registers",
     "read_holding_registers", "read_write_multiple_registers"}

\* C29: every Ok result of a Context reader method holds exactly the
\* requested number of elements, and a response of the right kind whose
\* number of elements cannot satisfy the request (fewer bits than asked for,
\* or another number of registers) is reported as an InvalidData error.
C29_ResultLength ==
    ctx.method \in ReaderMethods =>
        /\ ctx.result.kind = "Ok" => Len(ctx.result.values) = ctx.cnt
        /\ (/\ ctx.rsp.kind = KindOf(ctx.method)
            /\ \/ Len(ctx.rsp.values) < ctx.cnt
               \/ ctx.rsp.kind \in WordKinds /\ Len(ctx.rsp.values) # ctx.cnt)
               => (ctx.result.kind = "Err" /\ ctx.result.err = "InvalidData")

-----------------------------------------------------------------------------
(* C24 *)

\* what is left to do inside a decode() call: three steps for every byte
\* still buffered, and the steps of the current loop iteration
Measure ==
    3 * Len(buf) + (CASE pc = "predict" -> 2 [] pc = "frame" -> 1 [] OTHER -> 0)

\* C24: a decode() call on a buffer of length L terminates after at most L
\* resync steps: every step inside the call either ends the call or brings
\* it nearer to its end, a loop iteration that does not return consuming
\* one byte, so the loop cannot spin without shrinking the buffer.
C24_Terminates ==
    [][InCall =>
          /\ InCall' => Measure' < Measure
          /\ (pc = "recover" /\ InCall') => Len(buf') = Len(buf) - 1
          /\ Len(callDropped') <= Len(callBuf')
          /\ Len(callDropped') + Len(buf') <= Len(callBuf')]_vars

\* a call that went through several resync steps and returned
C24_Witness ==
    /\ JustReturned
    /\ Len(callDropped) >= 3
    /\ Len(callBuf) > Len(callDropped)

-----------------------------------------------------------------------------
(* C25 *)

\* C25: a resync step taken while the log holds 256 bytes clears the log
\* and then records the dropped byte, leaving exactly that byte in the log;
\* with fewer than 256 bytes logged it appends the dropped byte and keeps
\* the earlier entries; either way decoding goes on at the next byte.
C25_OverflowStep ==
    [][pc = "recover" =>
          /\ Len(dropped_bytes) >= MAX_FRAME_LEN => dropped_bytes' = <<buf[1]>>
          /\ Len(dropped_bytes) < MAX_FRAME_LEN
                => dropped_bytes' = Append(dropped_bytes, buf[1])
          /\ pc' = "predict"
          /\ buf' = Tail(buf)]_vars

\* the resync step after the 257th dropped byte of one call: the log was
\* cleared and holds that byte alone
C25_Witness ==
    /\ pc = "predict"
    /\ Len(callDropped) = MAX_FRAME_LEN + 1
    /\ Len(dropped_bytes) = 1

-----------------------------------------------------------------------------
(* C26 *)

\* the frame decoder, about to be invoked, will find a complete candidate
\* frame whose CRC does not match
CrcMismatchAhead ==
    /\ pc = "frame"
    /\ Len(buf) >= pdu_len + 3
    /\ ~check_crc(SubSeq(buf, 1, pdu_len + 1),
                  read_u16_BE(SubSeq(buf, pdu_len + 2, pdu_len + 3)))

\* C26: the debug assertions of the codec hold in every reachable state: the
\* buffer is not empty when recover_on_error is invoked, the retry flag is
\* false when the frame decoder is about to be invoked, and the buffer is
\* empty once the remainder has been split off on the CRC-mismatch path.
C26_AssertionsHold ==
    /\ pc = "recover" => buf # << >>
    /\ pc = "frame" => ~retry
    /\ CrcMismatchAhead =>
          LET after == split_to(split_to(buf, pdu_len + 1).rest, 2).rest
          IN  split(after).left = << >>
    /\ pc # "panicked"

\* recover_on_error is invoked after a CRC mismatch, in a call that has
\* already dropped bytes
C26_Witness ==
    /\ pc = "recover"
    /\ get_pdu_len(role, buf).kind = "Len"
    /\ callDropped # << >>
    /\ buf # << >>

-----------------------------------------------------------------------------
(* C27 *)

RECURSIVE DecodeCall(_, _, _, _)
\* one whole decode() call of a decoder of role r whose log holds d, on
\* buffer b: the loop of decode run to its return; acc collects the bytes
\* the call drops
DecodeCall(r, d, b, acc) ==
    LET p == get_pdu_len(r, b)
        f == FrameDecoder_decode(d, b, p.len)
        stop(k, id, pdu, b2, d2) ==
            [res |-> [kind |-> k, slave_id |-> id, pdu |-> pdu],
             buf |-> b2, dropped_bytes |-> d2, dropped |-> acc]
        resync(b2, d2) ==
            LET rc == recover_on_error(d2, b2)
            IN  DecodeCall(r, rc.dropped_bytes, rc.buf,
                           acc \o SubSeq(b2, 1, Len(b2) - Len(rc.buf)))
    IN  CASE p.kind = "NeedMore" -> stop("NeedMore", 0, << >>, b, d)
          [] p.kind = "Err" ->
               IF b = << >> THEN stop("Panic", 0, << >>, b, d) ELSE resync(b, d)
          [] p.kind = "Len" ->
               (CASE f.kind = "Frame" ->
                       stop("Frame", f.slave_id, f.pdu, f.buf, f.dropped_bytes)
                  [] f.kind = "NeedMore" ->
                       stop("NeedMore", 0, << >>, f.buf, f.dropped_bytes)
                  [] OTHER ->
                       IF f.buf = << >>
                       THEN stop("Panic", 0, << >>, f.buf, f.dropped_bytes)
                       ELSE resync(f.buf, f.dropped_bytes))
          [] OTHER -> stop("Panic", 0, << >>, b, d)

RECURSIVE DecodeRun(_, _, _, _, _)
\* decode() called on buffer b again and again until it returns no frame:
\* the frames returned, the bytes dropped and the buffer left
DecodeRun(r, d, b, frames, dropped) ==
    LET c == DecodeCall(r, d, b, << >>)
    IN  IF c.res.kind = "Frame"
        THEN DecodeRun(r, c.dropped_bytes, c.buf,
                       Append(frames, [slave_id |-> c.res.slave_id,
                                       pdu |-> c.res.pdu]),
                       dropped \o c.dropped)
        ELSE [frames |-> frames, dropped |-> dropped \o c.dropped,
              buf |-> c.buf, kind |-> c.res.kind]

\* the decoder has been called until it asked for more bytes
Quiescent == pc = "idle" /\ ~is_readable

\* C27: however the stream was split into appends, with decode() called
\* after each append until it asks for more, the frames returned, the bytes
\* dropped and the buffer left are those of appending the whole stream at
\* once.
C27_ChunkingIndependent ==
    Quiescent =>
        LET once == DecodeRun(role, << >>, fed, << >>, << >>)
        IN  /\ once.kind = "NeedMore"
            /\ recv = once.frames
            /\ allDropped = once.dropped
            /\ buf = once.buf

\* a stream that gave a frame, dropped bytes and left a partial frame
C27_Witness ==
    /\ Quiescent
    /\ recv # << >>
    /\ allDropped # << >>
    /\ buf # << >>
    /\ Len(fed) > Len(buf) + Len(allDropped)

-----------------------------------------------------------------------------
(* C28 *)

\* contents a decoder's log of dropped bytes can have: empty, one byte, full
AltLogs == {<< >>, <<66>>, [i \in 1..MAX_FRAME_LEN |-> 66]}

\* C28: the log of dropped bytes is diagnostic only: a decoder that differs
\* from this one in nothing but the contents of its log returns the same
\* result and leaves the same buffer, at every decode() call.
C28_LogOnlyDiagnostic ==
    JustReturned =>
        \A d \in AltLogs :
            LET twin == DecodeCall(role, d, callBuf, << >>)
            IN  /\ twin.res = res
                /\ twin.buf = buf
                /\ twin.dropped = callDropped

\* a call that dropped bytes and returned a frame, in a decoder that had
\* dropped bytes in earlier calls too
C28_Witness ==
    /\ JustReturned
    /\ res.kind = "Frame"
    /\ callDropped # << >>
    /\ Len(dropped_bytes) = 0
    /\ Len(allDropped) > Len(callDropped)

-----------------------------------------------------------------------------
(* C30 *)

\* C30: a decode() call on a buffer of 256 bytes or more never answers
\* "need more" with the buffer unchanged: it returns a frame or it consumes
\* at least one byte.
C30_BoundedWaiting ==
    (JustReturned /\ Len(callBuf) >= MAX_FRAME_LEN) =>
        \/ res.kind = "Frame"
        \/ Len(buf) < Len(callBuf)

====
